---- MODULE Spec2Model ----
(***************************************************************************)
(* Model of src/main.py: the Flask handlers index() (GenerateProject) and  *)
(* download() (FetchArchive) working on the shared directory BASE_DIR.     *)
(* Texts are sequences of one-character strings (the fence ``` and the     *)
(* parent reference .. are single symbols).  Paths are sequences of names  *)
(* relative to BASE_DIR.                                                   *)
(***************************************************************************)
EXTENDS Integers, Sequences, FiniteSets, TLC

\* ------------------------------------------------------------------ bounds
MaxRequests == 2
MaxPromptLen == 1

\* ------------------------------------------------------- program constants
SlugLen == 50
DefaultSlug == "generated_project"
\* the triple-backtick delimiter of line 130, one symbol of the text
FENCE == "<fence>"
NL == "\n"
Whitespace == {" ", NL}
SafeChars == {"a", "b", "d", "x", "y", "_", ".", "-"}

\* --------------------------------------------------------- string helpers
RECURSIVE LStrip(_)
LStrip(s) ==
  IF s = <<>> THEN <<>>
  ELSE IF Head(s) \in Whitespace THEN LStrip(Tail(s)) ELSE s

RECURSIVE RStrip(_)
RStrip(s) ==
  IF s = <<>> THEN <<>>
  ELSE IF s[Len(s)] \in Whitespace THEN RStrip(SubSeq(s, 1, Len(s) - 1)) ELSE s

\* str.strip()
Strip(s) == RStrip(LStrip(s))

\* str.split(sep) for a one-symbol separator: always at least one piece
RECURSIVE Split(_, _)
Split(s, sep) ==
  IF \A i \in 1..Len(s) : s[i] # sep THEN <<s>>
  ELSE LET i == CHOOSE k \in 1..Len(s) :
                   s[k] = sep /\ \A j \in 1..(k - 1) : s[j] # sep
       IN <<SubSeq(s, 1, i - 1)>> \o Split(SubSeq(s, i + 1, Len(s)), sep)

\* sep.join(parts)
RECURSIVE JoinWith(_, _)
JoinWith(parts, sep) ==
  IF parts = <<>> THEN <<>>
  ELSE IF Len(parts) = 1 THEN parts[1]
  ELSE parts[1] \o <<sep>> \o JoinWith(Tail(parts), sep)

\* str.split() without argument: pieces between runs of whitespace
RECURSIVE SplitWs(_)
SplitWs(s) ==
  LET t == LStrip(s) IN
  IF t = <<>> THEN <<>>
  ELSE LET n == IF \E k \in 1..Len(t) : t[k] \in Whitespace
                THEN (CHOOSE k \in 1..Len(t) :
                        t[k] \in Whitespace /\ \A j \in 1..(k - 1) : t[j] \notin Whitespace) - 1
                ELSE Len(t)
       IN <<SubSeq(t, 1, n)>> \o SplitWs(SubSeq(t, n + 1, Len(t)))

\* str.replace(old, new) for one-symbol strings
Replace(s, old, new) == [i \in 1..Len(s) |-> IF s[i] = old THEN new ELSE s[i]]

RECURSIVE Filter(_, _)
Filter(s, keep) ==
  IF s = <<>> THEN <<>>
  ELSE IF Head(s) \in keep THEN <<Head(s)>> \o Filter(Tail(s), keep)
  ELSE Filter(Tail(s), keep)

RECURSIVE StripChars(_, _)
StripChars(s, cs) ==
  IF s = <<>> THEN <<>>
  ELSE IF Head(s) \in cs THEN StripChars(Tail(s), cs)
  ELSE IF s[Len(s)] \in cs THEN StripChars(SubSeq(s, 1, Len(s) - 1), cs)
  ELSE s

\* the text as one name
RECURSIVE Str(_)
Str(s) == IF s = <<>> THEN "" ELSE Head(s) \o Str(Tail(s))

\* ----------------------------------------------------------------- slug
\* werkzeug.utils.secure_filename
secure_filename(name) ==
  StripChars(Filter(JoinWith(SplitWs(Replace(name, "/", " ")), "_"), SafeChars),
             {".", "_"})

\* lines 109-110
ProjectName(prompt) ==
  LET cut == SubSeq(prompt, 1, IF Len(prompt) < SlugLen THEN Len(prompt) ELSE SlugLen)
      safe == secure_filename(Replace(cut, " ", "_"))
  IN IF safe = <<>> THEN DefaultSlug ELSE Str(safe)

ZipName(slug) == slug \o ".zip"

\* ------------------------------------------------------- response parsing
\* lines 130-137: the (filename, content) pairs the loop writes, in order
ParseBlock(seg) ==
  LET block == Strip(seg)
      lines == Split(block, NL)
      filename == Strip(lines[1])
      content == Strip(JoinWith(Tail(lines), NL))
  IN [filename |-> filename, content |-> content]

RECURSIVE AcceptedOf(_)
AcceptedOf(segs) ==
  IF segs = <<>> THEN <<>>
  ELSE LET e == ParseBlock(Head(segs)) IN
       IF Strip(Head(segs)) # <<>> /\ e.filename # <<>> /\ e.content # <<>>
       THEN <<e>> \o AcceptedOf(Tail(segs))
       ELSE AcceptedOf(Tail(segs))

ParseResponse(text) == AcceptedOf(Split(text, FENCE))

\* ------------------------------------------------------------ file system
\* A node is a directory, a text file, or a zip file holding entries.
DirNode == [kind |-> "dir"]
FileNode(data) == [kind |-> "file", data |-> data]
Archive(entries) == [entries |-> entries]
ZipNode(entries) == [kind |-> "zip", data |-> Archive(entries)]

\* the names of a relative filename, as os.path.join / the OS split them
PathOf(filename) ==
  LET parts == Split(filename, "/") IN [i \in 1..Len(parts) |-> Str(parts[i])]

\* path resolution by the OS: empty and "." names vanish, ".." leaves a directory
RECURSIVE Resolve(_, _)
Resolve(acc, rest) ==
  IF rest = <<>> THEN acc
  ELSE LET n == Head(rest) IN
       IF n = "" \/ n = "." THEN Resolve(acc, Tail(rest))
       ELSE IF n = ".." /\ acc # <<>> /\ acc[Len(acc)] # ".."
            THEN Resolve(SubSeq(acc, 1, Len(acc) - 1), Tail(rest))
       ELSE Resolve(Append(acc, n), Tail(rest))

Normalize(p) == Resolve(<<>>, p)

IsPrefix(p, q) == Len(p) <= Len(q) /\ SubSeq(q, 1, Len(p)) = p

\* BASE_DIR (line 56) and its ancestors are directories that always exist
IsDir(f, p) ==
  \/ \A i \in 1..Len(p) : p[i] = ".."
  \/ p \in DOMAIN f /\ f[p].kind = "dir"

\* os.path.exists
Exists(f, p) == IsDir(f, p) \/ p \in DOMAIN f

\* os.makedirs(path, exist_ok=True) on the names comps: every prefix is made
\* a directory in turn; a prefix that is a file raises, keeping what was made
RECURSIVE MakeDirsFrom(_, _, _)
MakeDirsFrom(f, comps, k) ==
  IF k > Len(comps) THEN [ok |-> TRUE, fs |-> f]
  ELSE LET q == Normalize(SubSeq(comps, 1, k)) IN
       IF IsDir(f, q) THEN MakeDirsFrom(f, comps, k + 1)
       ELSE IF q \in DOMAIN f THEN [ok |-> FALSE, fs |-> f]
       ELSE MakeDirsFrom((q :> DirNode) @@ f, comps, k + 1)

makedirs(f, comps) == MakeDirsFrom(f, comps, 1)

\* open(path, 'w') and write: fails on a directory or under a missing parent
WriteFile(f, comps, content) ==
  LET target == Normalize(comps)
      parent == Normalize(SubSeq(comps, 1, Len(comps) - 1))
  IN IF comps[Len(comps)] = "" \/ IsDir(f, target) \/ ~IsDir(f, parent)
     THEN [ok |-> FALSE, fs |-> f]
     ELSE [ok |-> TRUE, fs |-> (target :> FileNode(content)) @@ f]

\* lines 139-142 for one accepted entry
WriteEntry(f, root, e) ==
  LET comps == root \o PathOf(e.filename)
      made == makedirs(f, SubSeq(comps, 1, Len(comps) - 1))
  IN IF made.ok THEN WriteFile(made.fs, comps, e.content) ELSE made

\* shutil.rmtree(root): raises when root is not a directory
rmtree(f, root) ==
  IF root \in DOMAIN f /\ f[root].kind = "dir"
  THEN [ok |-> TRUE, fs |-> [p \in {q \in DOMAIN f : ~IsPrefix(root, q)} |-> f[p]]]
  ELSE [ok |-> FALSE, fs |-> f]

\* the files below root, by path relative to root
TreeFiles(f, root) ==
  LET inside == {q \in DOMAIN f : IsPrefix(root, q) /\ q # root /\ f[q].kind # "dir"}
      rels == {SubSeq(q, Len(root) + 1, Len(q)) : q \in inside}
  IN [rel \in rels |-> f[root \o rel].data]

\* shutil.make_archive(base_name, 'zip', root_dir), line 156
make_archive(f, zip, root) ==
  IF IsDir(f, zip) THEN [ok |-> FALSE, fs |-> f]
  ELSE [ok |-> TRUE, fs |-> (zip :> ZipNode(TreeFiles(f, root))) @@ f]

\* ------------------------------------------------------------------ inputs
Workers == {1, 2}

PromptChars == {" ", "a", "/"}
Prompts == UNION {[1..n -> PromptChars] : n \in 0..MaxPromptLen}

\* segments between two fences: a header line, then the content
BlockAX == <<"a", NL, "x", NL>>
BlockAY == <<"a", NL, "y", NL>>
BlockBX == <<"b", NL, "x", NL>>
BlockNoHeader == <<NL, "b", NL, "x", NL>>
BlockNoContent == <<"b", NL, " ", NL>>
BlockParent == <<"..", "/", "d", "/", "b", NL, "x", NL>>
BlockNested == <<"a", "/", "b", NL, "x", NL>>

RECURSIVE Fenced(_)
Fenced(bs) ==
  IF bs = <<>> THEN <<>>
  ELSE <<FENCE>> \o Head(bs) \o <<FENCE, NL>> \o Fenced(Tail(bs))

\* the texts the generation service may answer with
Responses ==
  { <<>>,
    Fenced(<<BlockAX>>),
    Fenced(<<BlockAX, BlockAY>>),
    Fenced(<<BlockAY, BlockBX>>),
    Fenced(<<BlockNoHeader>>),
    Fenced(<<BlockNoContent>>),
    Fenced(<<BlockParent>>),
    Fenced(<<BlockAX, BlockNested>>) }

\* what openai.ChatCompletion.create or line 87 may raise, with its base class
Parent ==
  [AuthenticationError |-> "OpenAIError", RateLimitError |-> "OpenAIError",
   APIError |-> "OpenAIError", OpenAIError |-> "Exception", KeyError |-> "Exception"]
Exceptions == DOMAIN Parent

RECURSIVE IsInstance(_, _)
IsInstance(e, cls) ==
  e = cls \/ (e \in DOMAIN Parent /\ IsInstance(Parent[e], cls))

\* the same clauses with the base class of the service errors tried first
ExceptClausesBaseFirst ==
  << [cls |-> "OpenAIError", error |-> "GenerationServiceError"],
     [cls |-> "AuthenticationError", error |-> "AuthenticationError"],
     [cls |-> "RateLimitError", error |-> "RateLimitError"],
     [cls |-> "Exception", error |-> "UnknownGenerationError"] >>

\* the except clauses of lines 89-104, in order
ExceptClauses ==
  << [cls |-> "AuthenticationError", error |-> "AuthenticationError"],
     [cls |-> "RateLimitError", error |-> "RateLimitError"],
     [cls |-> "OpenAIError", error |-> "GenerationServiceError"],
     [cls |-> "Exception", error |-> "UnknownGenerationError"] >>

HandleGenerationError(e) ==
  LET i == CHOOSE k \in 1..Len(ExceptClauses) :
             /\ IsInstance(e, ExceptClauses[k].cls)
             /\ \A j \in 1..(k - 1) : ~IsInstance(e, ExceptClauses[j].cls)
  IN ExceptClauses[i].error

\* the form value taken as it comes
FormPromptNoStrip(raw) == raw

\* line 67
FormPrompt(raw) == Strip(raw)

FetchNames == {ZipName(ProjectName(FormPrompt(p))) : p \in Prompts} \cup {"d"}

\* ------------------------------------------------------------------- state
VARIABLES
  fs,              \* the tree below BASE_DIR: path -> node
  pc,              \* per worker: where its index() call stands
  prompt,          \* per worker: the stripped prompt (until line 109)
  generated_code,  \* per worker: the text of line 87, of its last request
  project_name,    \* per worker: the slug of line 110, of its last request
  idx,             \* per worker: accepted entries already written by the loop
  outcome,         \* per worker: how its last request ended
  calls,           \* per worker: generation calls made by its last request
  raised,          \* per worker: what the generation call raised
  wasBlank,        \* per worker: its last request's prompt was all whitespace
  created,         \* per worker: paths its last request created or wrote
  touched,         \* per worker: its last request changed BASE_DIR
  archived,        \* per worker: the entries its last request put in the archive
  builtFrom,       \* archive path -> the text of the request that last wrote it
  returned,        \* archive references handed out by successful requests
  lastFetch,       \* the download() just answered and its result (gone at the next step)
  nreq             \* requests received so far

vars == <<fs, pc, prompt, generated_code, project_name, idx, outcome, calls,
          raised, wasBlank, created, touched, archived, builtFrom, returned, lastFetch, nreq>>

locals == <<prompt, generated_code, project_name, idx>>
ghosts == <<calls, raised, wasBlank, created, touched, archived>>

NoFetch == [filename |-> "", result |-> "none"]
NotFound == "NotFoundError"
NoArchive == [entries |-> <<>>, none |-> TRUE]

Init ==
  /\ fs = (<<>> :> DirNode)
  /\ pc = [r \in Workers |-> "idle"]
  /\ prompt = [r \in Workers |-> <<>>]
  /\ generated_code = [r \in Workers |-> <<>>]
  /\ project_name = [r \in Workers |-> ""]
  /\ idx = [r \in Workers |-> 0]
  /\ outcome = [r \in Workers |-> "none"]
  /\ calls = [r \in Workers |-> 0]
  /\ raised = [r \in Workers |-> "none"]
  /\ wasBlank = [r \in Workers |-> FALSE]
  /\ created = [r \in Workers |-> {}]
  /\ touched = [r \in Workers |-> FALSE]
  /\ archived = [r \in Workers |-> NoArchive]
  /\ builtFrom = [p \in {} |-> <<>>]
  /\ returned = {}
  /\ lastFetch = NoFetch
  /\ nreq = 0

Blank(raw) == \A i \in 1..Len(raw) : raw[i] \in Whitespace

ProjectPath(r) == <<project_name[r]>>
ZipPath(r) == <<ZipName(project_name[r])>>
Entries(r) == ParseResponse(generated_code[r])

\* the handler returns with a flash message or a redirect to the download
Return(r, result) ==
  /\ pc' = [pc EXCEPT ![r] = "idle"]
  /\ outcome' = [outcome EXCEPT ![r] = result]

\* paths of g that f does not hold with the same node
NewIn(f, g) == {p \in DOMAIN g : p \notin DOMAIN f \/ f[p] # g[p]}

\* the except blocks of lines 144-148 and 158-162: rmtree, then the error
Rollback(r, f, error) ==
  LET rm == rmtree(f, ProjectPath(r)) IN
  /\ fs' = rm.fs
  /\ created' = [created EXCEPT ![r] = @ \cup NewIn(fs, f)]
  /\ touched' = [touched EXCEPT ![r] = TRUE]
  /\ Return(r, IF rm.ok THEN error ELSE "UnhandledError")

\* lines 65-70: a POST arrives, its prompt is stripped and checked
Receive(r) ==
  /\ pc[r] = "idle"
  /\ lastFetch' = NoFetch
  /\ nreq < MaxRequests
  /\ nreq' = nreq + 1
  /\ \E raw \in Prompts :
       /\ wasBlank' = [wasBlank EXCEPT ![r] = Blank(raw)]
       /\ IF FormPrompt(raw) = <<>>
          THEN /\ Return(r, "EmptyPromptError")
               /\ prompt' = [prompt EXCEPT ![r] = <<>>]
          ELSE /\ pc' = [pc EXCEPT ![r] = "generate"]
               /\ prompt' = [prompt EXCEPT ![r] = FormPrompt(raw)]
               /\ outcome' = [outcome EXCEPT ![r] = "pending"]
  /\ generated_code' = [generated_code EXCEPT ![r] = <<>>]
  /\ project_name' = [project_name EXCEPT ![r] = ""]
  /\ idx' = [idx EXCEPT ![r] = 0]
  /\ calls' = [calls EXCEPT ![r] = 0]
  /\ raised' = [raised EXCEPT ![r] = "none"]
  /\ created' = [created EXCEPT ![r] = {}]
  /\ touched' = [touched EXCEPT ![r] = FALSE]
  /\ archived' = [archived EXCEPT ![r] = NoArchive]
  /\ UNCHANGED <<fs, builtFrom, returned>>

\* lines 77-88 and 109-111: the call answers, the slug is derived
GenerateOk(r) ==
  /\ pc[r] = "generate"
  /\ lastFetch' = NoFetch
  /\ \E text \in Responses :
       generated_code' = [generated_code EXCEPT ![r] = text]
  /\ project_name' = [project_name EXCEPT ![r] = ProjectName(prompt[r])]
  /\ prompt' = [prompt EXCEPT ![r] = <<>>]
  /\ calls' = [calls EXCEPT ![r] = @ + 1]
  /\ pc' = [pc EXCEPT ![r] = "check"]
  /\ UNCHANGED <<fs, idx, outcome, builtFrom, raised, wasBlank, created, touched,
                 archived, returned, nreq>>

\* lines 89-104: the call raises
GenerateFail(r) ==
  /\ pc[r] = "generate"
  /\ lastFetch' = NoFetch
  /\ \E e \in Exceptions :
       /\ raised' = [raised EXCEPT ![r] = e]
       /\ Return(r, HandleGenerationError(e))
  /\ calls' = [calls EXCEPT ![r] = @ + 1]
  /\ UNCHANGED <<fs, locals, builtFrom, wasBlank, created, touched, archived, returned, nreq>>

\* lines 113-116
CheckExists(r) ==
  /\ pc[r] = "check"
  /\ lastFetch' = NoFetch
  /\ IF Exists(fs, ProjectPath(r))
     THEN Return(r, "DuplicateProjectError")
     ELSE pc' = [pc EXCEPT ![r] = "mkdir"] /\ UNCHANGED outcome
  /\ UNCHANGED <<fs, locals, builtFrom, ghosts, returned, nreq>>

\* line 118, outside any try
MakeProjectDir(r) ==
  /\ pc[r] = "mkdir"
  /\ lastFetch' = NoFetch
  /\ LET made == makedirs(fs, ProjectPath(r)) IN
     /\ fs' = made.fs
     /\ created' = [created EXCEPT ![r] = @ \cup NewIn(fs, made.fs)]
     /\ IF made.ok
        THEN /\ pc' = [pc EXCEPT ![r] = IF Entries(r) = <<>> THEN "archive" ELSE "write"]
             /\ UNCHANGED outcome
        ELSE Return(r, "UnhandledError")
  /\ touched' = [touched EXCEPT ![r] = TRUE]
  /\ UNCHANGED <<locals, builtFrom, calls, raised, wasBlank, archived, returned, nreq>>

\* lines 130-148: one turn of the loop that writes a file
WriteNext(r) ==
  /\ pc[r] = "write"
  /\ lastFetch' = NoFetch
  /\ LET e == Entries(r)[idx[r] + 1]
         res == WriteEntry(fs, ProjectPath(r), e)
     IN IF res.ok
        THEN /\ fs' = res.fs
             /\ created' = [created EXCEPT ![r] = @ \cup NewIn(fs, res.fs)]
             /\ touched' = [touched EXCEPT ![r] = TRUE]
             /\ idx' = [idx EXCEPT ![r] = @ + 1]
             /\ pc' = [pc EXCEPT ![r] =
                         IF idx[r] + 1 = Len(Entries(r)) THEN "archive" ELSE "write"]
             /\ UNCHANGED outcome
        ELSE Rollback(r, res.fs, "FileCreationError") /\ UNCHANGED idx
  /\ UNCHANGED <<prompt, generated_code, project_name, builtFrom, calls, raised, wasBlank, archived, returned, nreq>>

\* the same turn when the file system refuses (disk full, permissions):
\* before anything was made, or at open() after the directories were made
WriteFault(r) ==
  /\ pc[r] = "write"
  /\ lastFetch' = NoFetch
  /\ LET e == Entries(r)[idx[r] + 1]
         comps == ProjectPath(r) \o PathOf(e.filename)
         made == makedirs(fs, SubSeq(comps, 1, Len(comps) - 1))
     IN \E f \in {fs, made.fs} : Rollback(r, f, "FileCreationError")
  /\ UNCHANGED <<locals, builtFrom, calls, raised, wasBlank, archived, returned, nreq>>

\* lines 153-162.  When root_dir is gone, make_archive raises where it
\* changes into root_dir and writes an empty archive where it walks it,
\* depending on the version of shutil.
MakeArchive(r) ==
  /\ pc[r] = "archive"
  /\ lastFetch' = NoFetch
  /\ LET res == make_archive(fs, ZipPath(r), ProjectPath(r)) IN
     \/ /\ res.ok
        /\ fs' = res.fs
        /\ archived' = [archived EXCEPT ![r] = res.fs[ZipPath(r)].data]
        /\ created' = [created EXCEPT ![r] = @ \cup {ZipPath(r)}]
        /\ touched' = [touched EXCEPT ![r] = TRUE]
        /\ builtFrom' = (ZipPath(r) :> generated_code[r]) @@ builtFrom
        /\ pc' = [pc EXCEPT ![r] = "rmtree"]
        /\ UNCHANGED outcome
     \/ /\ ~res.ok \/ ~IsDir(fs, ProjectPath(r))
        /\ Rollback(r, fs, "ArchiveCreationError")
        /\ UNCHANGED <<archived, builtFrom>>
  /\ UNCHANGED <<locals, calls, raised, wasBlank, returned, nreq>>

\* make_archive raises part-way (disk full): the archive file is missing or
\* holds the entries written so far; lines 158-162 do not remove it
ArchiveFault(r) ==
  /\ pc[r] = "archive"
  /\ lastFetch' = NoFetch
  /\ IsDir(fs, ProjectPath(r))
  /\ ~IsDir(fs, ZipPath(r))
  /\ LET all == TreeFiles(fs, ProjectPath(r)) IN
     \/ Rollback(r, fs, "ArchiveCreationError") /\ UNCHANGED builtFrom
     \/ \E some \in SUBSET (DOMAIN all) :
          /\ some # DOMAIN all
          /\ Rollback(r, (ZipPath(r) :> ZipNode([p \in some |-> all[p]])) @@ fs,
                      "ArchiveCreationError")
          /\ builtFrom' = (ZipPath(r) :> generated_code[r]) @@ builtFrom
  /\ UNCHANGED <<locals, calls, raised, wasBlank, archived, returned, nreq>>

\* lines 167-174
RemoveProjectDir(r) ==
  /\ pc[r] = "rmtree"
  /\ lastFetch' = NoFetch
  /\ LET rm == rmtree(fs, ProjectPath(r)) IN
     /\ fs' = rm.fs
     /\ IF rm.ok
        THEN /\ Return(r, "ArchiveReference")
             /\ returned' = returned \cup
                  {[filename |-> ZipName(project_name[r]), data |-> archived[r]]}
        ELSE /\ Return(r, "UnhandledError")
             /\ UNCHANGED returned
  /\ UNCHANGED <<locals, builtFrom, ghosts, nreq>>

\* lines 182-190: download(filename)
FetchArchive ==
  /\ \E name \in FetchNames :
       lastFetch' = [filename |-> name,
                     result |-> IF <<name>> \in DOMAIN fs /\ fs[<<name>>].kind # "dir"
                                THEN fs[<<name>>].data ELSE NotFound]
  /\ UNCHANGED <<fs, pc, locals, outcome, builtFrom, ghosts, returned, nreq>>

\* the threaded server: requests of all workers interleave
Next ==
  \/ \E r \in Workers : Receive(r)
  \/ \E r \in Workers : GenerateOk(r)
  \/ \E r \in Workers : GenerateFail(r)
  \/ \E r \in Workers : CheckExists(r)
  \/ \E r \in Workers : MakeProjectDir(r)
  \/ \E r \in Workers : WriteNext(r)
  \/ \E r \in Workers : WriteFault(r)
  \/ \E r \in Workers : MakeArchive(r)
  \/ \E r \in Workers : ArchiveFault(r)
  \/ \E r \in Workers : RemoveProjectDir(r)
  \/ FetchArchive
Spec == Init /\ [][Next]_vars

\* one worker: requests run one after the other
SeqNext ==
  \/ Receive(1)
  \/ GenerateOk(1)
  \/ GenerateFail(1)
  \/ CheckExists(1)
  \/ MakeProjectDir(1)
  \/ WriteNext(1)
  \/ WriteFault(1)
  \/ MakeArchive(1)
  \/ ArchiveFault(1)
  \/ RemoveProjectDir(1)
  \/ FetchArchive
SpecSeq == Init /\ [][SeqNext]_vars

\* ------------------------------------------------------------- properties
Taxonomy ==
  {"EmptyPromptError", "AuthenticationError", "RateLimitError",
   "GenerationServiceError", "UnknownGenerationError", "DuplicateProjectError",
   "FileCreationError", "ArchiveCreationError"}

IsArchive(p) == p \in DOMAIN fs /\ fs[p].kind = "zip"

EntrySet(entries) == {[path |-> p, content |-> entries[p]] : p \in DOMAIN entries}

Range(seq) == {seq[i] : i \in 1..Len(seq)}

\* the (filename, content) pairs decoded from a response
DecodedPairs(text) ==
  {[path |-> PathOf(e.filename), content |-> e.content] : e \in Range(ParseResponse(text))}

Succeeded(r) == pc[r] = "idle" /\ outcome[r] = "ArchiveReference"

\* C1: when requests run one after the other, a request whose slug is that of
\* an earlier successful request is rejected at the existence check (it never
\* goes on to create the directory), and every archive a successful request
\* returned keeps the contents that request archived.
C1_SecondRequestRejected ==
  /\ \A r \in Workers :
       pc[r] \in {"mkdir", "write", "archive", "rmtree"}
         => \A rec \in returned : rec.filename # ZipName(project_name[r])
  /\ \A rec \in returned :
       IsArchive(<<rec.filename>>) /\ fs[<<rec.filename>>].data = rec.data

\* C2: after a request that completed successfully, the archive of its slug
\* holds exactly the (filename, content) pairs decoded from its response.
C2_ArchiveIsDecodedPairs ==
  \A r \in Workers :
    Succeeded(r) =>
      /\ IsArchive(ZipPath(r))
      /\ EntrySet(fs[ZipPath(r)].data.entries) = DecodedPairs(generated_code[r])

\* the line after the opening fence, and what follows it
HeaderLine(seg) == Split(seg, NL)[1]
Body(seg) == JoinWith(Tail(Split(seg, NL)), NL)
LacksFilenameOrContent(seg) == Strip(HeaderLine(seg)) = <<>> \/ Strip(Body(seg)) = <<>>
KeptPairs(text) ==
  {[path |-> PathOf(Strip(HeaderLine(seg))), content |-> Strip(Body(seg))] :
     seg \in {g \in Range(Split(text, FENCE)) : ~LacksFilenameOrContent(g)}}

C4_RollbackIsComplete ==
  \A r \in Workers :
    pc[r] = "idle" /\ outcome[r] = "FileCreationError"
      => \A p \in created[r] : p \notin DOMAIN fs

\* C5: at most one request at a time holds the project directory of a slug
\* (has created it and not yet deleted it).
HoldsDirectory(r) == pc[r] \in {"write", "archive", "rmtree"}
C5_OneHolderPerSlug ==
  \A r1, r2 \in Workers :
    r1 # r2 /\ HoldsDirectory(r1) /\ HoldsDirectory(r2)
      => project_name[r1] # project_name[r2]

\* C6: a request whose prompt is empty or all whitespace ends with
\* EmptyPromptError, having made no generation call and no change to BASE_DIR.
C6_BlankPromptRejected ==
  \A r \in Workers :
    outcome[r] # "none" /\ wasBlank[r]
      => /\ pc[r] = "idle"
         /\ outcome[r] = "EmptyPromptError"
         /\ calls[r] = 0
         /\ ~touched[r]
         /\ created[r] = {}

C6_Witness ==
  \E r \in Workers :
    /\ wasBlank[r] /\ outcome[r] = "EmptyPromptError" /\ pc[r] = "idle"
    /\ returned # {}

\* C7: when the generation call raises, the request ends with the error of
\* that failure (authentication, rate limit, other service error, anything
\* else), after exactly one call and without any change to BASE_DIR.
C7_GenerationFailurePropagated ==
  \A r \in Workers :
    raised[r] # "none"
      => /\ pc[r] = "idle"
         /\ calls[r] = 1
         /\ ~touched[r]
         /\ created[r] = {}
         /\ outcome[r] =
              CASE raised[r] = "AuthenticationError" -> "AuthenticationError"
                [] raised[r] = "RateLimitError" -> "RateLimitError"
                [] raised[r] \in {"APIError", "OpenAIError"} -> "GenerationServiceError"
                [] OTHER -> "UnknownGenerationError"

C7_Witness ==
  \E r \in Workers :
    /\ raised[r] = "AuthenticationError" /\ outcome[r] = "AuthenticationError"
    /\ calls[r] = 1 /\ returned # {}

\* C8: a download changes nothing under BASE_DIR, answers NotFoundError for
\* a name no request ever wrote an archive under, and for a name a successful
\* request returned answers with exactly what that request archived.
C8_FetchReturnsWhatWasArchived ==
  [][lastFetch' # NoFetch =>
       /\ fs' = fs
       /\ <<lastFetch'.filename>> \notin DOMAIN builtFrom => lastFetch'.result = NotFound
       /\ \A rec \in returned :
            rec.filename = lastFetch'.filename => lastFetch'.result = rec.data]_vars

\* C9: whenever no request is in progress no project directory is left, and
\* every finished request ended with an archive reference or an error of the
\* taxonomy.
C9_DirectoryDeletedOutcomeInTaxonomy ==
  /\ \A r \in Workers :
       pc[r] = "idle" => outcome[r] \in Taxonomy \cup {"ArchiveReference", "none"}
  /\ (\A r \in Workers : pc[r] = "idle")
       => \A p \in Prompts :
            FormPrompt(p) # <<>> => ~Exists(fs, <<ProjectName(FormPrompt(p))>>)

\* the files of a project directory into which all accepted entries of a
\* response have been written, and nothing else
RECURSIVE Populate(_, _, _)
Populate(f, root, entries) ==
  IF entries = <<>> THEN f
  ELSE Populate(WriteEntry(f, root, Head(entries)).fs, root, Tail(entries))

FullyPopulated(text) ==
  TreeFiles(Populate((<<>> :> DirNode) @@ (<<"p">> :> DirNode), <<"p">>,
                     ParseResponse(text)), <<"p">>)

\* C10: every archive present was built from a fully populated project
\* directory: its entries are the complete entries of the response of the
\* request that wrote it, not a part of them and not a mix.
C10_ArchiveIsComplete ==
  \A z \in DOMAIN builtFrom :
    IsArchive(z) => fs[z].data.entries = FullyPopulated(builtFrom[z])

====
